---- MODULE Spec2Model ----
(***************************************************************************)
(* Model of the storage layer (lib/storage.ts), the incremental poll       *)
(* (lib/stortinget.ts, fetchRecentDocuments) and the PDF chunk pipeline    *)
(* (lib/pdfHandler.ts) of bigthing-morning-brief.                          *)
(*                                                                         *)
(* Time is counted in ticks, TicksPerDay ticks to a calendar day.  A date  *)
(* string of the program (an ISO timestamp) is the tick it denotes; its    *)
(* YYYY-MM-DD prefix is the day of that tick.                              *)
(*                                                                         *)
(* A JavaScript object is a function from the keys it owns to values; a    *)
(* key whose value is undefined is owned with the value Undefined, and a   *)
(* JSON round trip drops it.                                               *)
(***************************************************************************)
EXTENDS Integers, Sequences, FiniteSets, TLC

VARIABLES
    backend,     \* which StorageAdapter getStorage() built: "memory" or "kv"
    now,         \* the clock (Date.now()), in ticks
    documents,   \* InMemoryStorage.documents: a Map, as its entries in insertion order
    pdfChunks,   \* InMemoryStorage.pdfChunks: eksportId -> chunk list or Null
    file,        \* .data/storage.json: Null (no file) or the snapshot written last
    loadPc,      \* loadFromFile(), started by getStorage() and not awaited
    loadBuf,     \* what loadFromFile() read and has not assigned yet
    kvDoc,       \* KV keys doc:<sakId>
    kvPdf,       \* KV keys pdf:<eksportId>
    kvIndex,     \* KV sets docs:date:<YYYY-MM-DD>
    kvExpire,    \* expiry time of each date-index set, NoTTL when none is set
    savePc,      \* per awaiting task: where its saveDocument/savePdfChunks call is
    saveArg,     \* per awaiting task: the document being saved
    saveData,    \* per awaiting task: the snapshot persistToFile() captured
    op,          \* the storage-API client (test-storage route): "idle", "saving", "saved"
    ret,         \* the storage-API client: the call that returned last
    rel,         \* getRelevantPdfChunks: its position, arguments, locals and result
    digest,      \* GET /api/digest: the module's cache and the request in flight
    chunker,     \* direct calls of chunkTextForRAG: arguments and return value of each
    twin,        \* the same call made on both backends: what each returned
    cycle,       \* fetchRecentDocuments: how its listing request settled last
    pdfFetch,    \* fetchPdf: its position, its abort timer and what it returned
    phase,       \* fetchRecentDocuments: "idle", "detail", "save"
    listing,     \* the /saker listing the poll in flight received
    storedDocsMap, \* storedDocsMap of the poll in flight
    toFetch,     \* sakerToFetch of the poll in flight
    detail,      \* per id: outcome of its detail request in the poll in flight
    pdfPc,       \* per caller of fetchAndChunkPdf: its position
    pdfArg,      \* per caller: the eksportId it was called with
    pdfBuf,      \* per caller: its locals pdfBuffer and chunks
    pdfRet       \* per caller: the return statement its last call took and the value

storeVars == <<documents, pdfChunks, file, loadPc, loadBuf, kvDoc, kvPdf, kvIndex, kvExpire>>
saveVars == <<savePc, saveArg, saveData>>
appVars == <<rel, digest, chunker, twin, cycle, pdfFetch>>
clientVars == <<op, ret, appVars>>
pollVars == <<phase, listing, storedDocsMap, toFetch, detail>>
pdfVars == <<pdfPc, pdfArg, pdfBuf, pdfRet>>
vars == <<backend, now, storeVars, saveVars, clientVars, pollVars, pdfVars>>

(***************************************************************************)
(* Domains and bounds                                                      *)
(***************************************************************************)
Ids == {"a", "b"}
NoId == ""
Pdfs == {"p", "q"}
Callers == {"c1", "c2"}
Tasks == Ids \cup Callers \cup {"client"}

Undefined == "undefined"
NoDate == 0 - 1
NoTTL == 0 - 1
NullDoc == [null |-> TRUE]
NoChunks == [present |-> FALSE, chunks |-> <<>>]
NoFile == [exists |-> FALSE, documents |-> <<>>, pdfChunks |-> [p \in Pdfs |-> NoChunks]]

TicksPerDay == 2
StartDay == 8
WindowDays == 7
ExpireDays == 30

Start == StartDay * TicksPerDay
WindowTicks == WindowDays * TicksPerDay
ExpireTicks == ExpireDays * TicksPerDay

\* the YYYY-MM-DD prefix of a timestamp
Day(t) == t \div TicksPerDay

(***************************************************************************)
(* JavaScript objects                                                      *)
(***************************************************************************)
DocKeys == {"sakId", "date", "lastUpdated", "fullText"}
UndefinedOf(k) == IF k \in {"date", "lastUpdated"} THEN NoDate ELSE Undefined

\* o.k : reading a key the object does not own yields undefined
Get(o, k) == IF k \in DOMAIN o THEN o[k] ELSE UndefinedOf(k)

\* JSON.parse(JSON.stringify(o)): keys whose value is undefined are dropped
JsonRoundTrip(o) == [k \in {j \in DOMAIN o : o[j] # UndefinedOf(j)} |-> o[k]]

\* truthiness of a string or a date string: "" and undefined are falsy
Truthy(x) == x # Undefined /\ x # NoId
TruthyDate(t) == t # NoDate

\* two documents a caller cannot tell apart by reading their fields
DeepEqual(x, y) ==
    IF x = NullDoc \/ y = NullDoc THEN x = y
    ELSE \A k \in DocKeys : Get(x, k) = Get(y, k)

(***************************************************************************)
(* Map (insertion-ordered) and Array.prototype.sort (stable)               *)
(***************************************************************************)
RECURSIVE MapGet(_, _)
MapGet(m, k) ==
    IF m = <<>> THEN NullDoc
    ELSE IF Head(m).key = k THEN Head(m).value
    ELSE MapGet(Tail(m), k)

MapHas(m, k) == \E i \in 1..Len(m) : m[i].key = k

\* Map.set: an existing key keeps its position, a new key goes last
MapSet(m, k, v) ==
    IF MapHas(m, k)
    THEN [i \in 1..Len(m) |-> IF m[i].key = k THEN [key |-> k, value |-> v] ELSE m[i]]
    ELSE Append(m, [key |-> k, value |-> v])

MapValues(m) == [i \in 1..Len(m) |-> m[i].value]

\* Array.prototype.sort with comparator Compare: stable, so an element goes after the
\* elements that do not compare greater than it
InsertSorted(sorted, x, Compare(_, _)) ==
    LET after == {i \in 1..Len(sorted) : Compare(sorted[i], x) > 0}
        k == IF after = {} THEN Len(sorted) + 1
             ELSE CHOOSE i \in after : \A j \in after : i <= j
    IN SubSeq(sorted, 1, k - 1) \o <<x>> \o SubSeq(sorted, k, Len(sorted))

Sort(docs, Compare(_, _)) ==
    LET sortedPrefix[n \in 0..Len(docs)] ==
            IF n = 0 THEN <<>> ELSE InsertSorted(sortedPrefix[n - 1], docs[n], Compare)
    IN sortedPrefix[Len(docs)]

RECURSIVE Concat(_)
Concat(seqs) == IF seqs = <<>> THEN <<>> ELSE Head(seqs) \o Concat(Tail(seqs))

Perms(S) == {f \in [1..Cardinality(S) -> S] : \A x \in S : \E i \in DOMAIN f : f[i] = x}

SeqToSet(s) == {s[i] : i \in DOMAIN s}

(***************************************************************************)
(* InMemoryStorage                                                         *)
(***************************************************************************)
MemGetDocument(sakId) == MapGet(documents, sakId)

\* (a, b) => new Date(b.date).getTime() - new Date(a.date).getTime()
MemCompare(a, b) == b.date - a.date

MemGetDocumentsByDateRange(startDate, endDate) ==
    LET InRange(doc) == doc.date >= startDate /\ doc.date <= endDate
    IN Sort(SelectSeq(MapValues(documents), InRange), MemCompare)

(***************************************************************************)
(* VercelKVStorage                                                         *)
(***************************************************************************)
KvExpired(d) == d \in DOMAIN kvExpire /\ kvExpire[d] # NoTTL /\ kvExpire[d] <= now

Smembers(d) == IF d \in DOMAIN kvIndex /\ ~KvExpired(d) THEN kvIndex[d] ELSE {}

KvGetDocument(sakId) == kvDoc[sakId]

\* the values currentDate takes in the while loop: startDate, then a day later each turn
LoopDates(startDate, endDate) ==
    LET n == IF endDate < startDate THEN 0 ELSE (endDate - startDate) \div TicksPerDay + 1
    IN [i \in 1..n |-> startDate + (i - 1) * TicksPerDay]

\* (a, b) => dateB.getTime() - dateA.getTime()
KvCompareAsc(a, b) == a.date - b.date
KvCompare(a, b) == b.date - a.date

\* order[i] is the order in which smembers lists the ids on the i-th turn of the loop
KvGetDocumentsByDateRange(startDate, endDate, order) ==
    LET dates == LoopDates(startDate, endDate)
        Listed(i) == SelectSeq(order[i], LAMBDA id : id \in Smembers(Day(dates[i])))
        DateDocs(i) == [j \in 1..Len(Listed(i)) |-> KvGetDocument(Listed(i)[j])]
        Found(i) == SelectSeq(DateDocs(i), LAMBDA doc : doc # NullDoc)
    IN Sort(Concat([i \in 1..Len(dates) |-> Found(i)]), KvCompare)

KvOrders(startDate, endDate) == [1..Len(LoopDates(startDate, endDate)) -> Perms(Ids)]

(***************************************************************************)
(* StorageAdapter, as the process sees it through getStorage()             *)
(***************************************************************************)
GetDocument(sakId) ==
    IF backend = "memory" THEN MemGetDocument(sakId) ELSE KvGetDocument(sakId)

\* every list getDocumentsByDateRange can return in the current state
RangeResults(startDate, endDate) ==
    IF backend = "memory"
    THEN {MemGetDocumentsByDateRange(startDate, endDate)}
    ELSE {KvGetDocumentsByDateRange(startDate, endDate, order) :
              order \in KvOrders(startDate, endDate)}

(***************************************************************************)
(* Documents and initial states                                            *)
(***************************************************************************)
MkDoc(sakId, date, lastUpdated, fullText) ==
    [sakId |-> sakId, date |-> date, lastUpdated |-> lastUpdated, fullText |-> fullText]

\* a snapshot an earlier run of the process left on disk
PriorDoc == JsonRoundTrip(MkDoc("a", Start - 1, Start - 1, "detail"))
PriorFile ==
    [exists |-> TRUE,
     documents |-> <<[key |-> "a", value |-> PriorDoc]>>,
     pdfChunks |-> [p \in Pdfs |-> NoChunks]]

IdleRet == [name |-> "none", id |-> NoId, doc |-> NullDoc, list |-> <<>>, s |-> 0, e |-> 0]

\* getStorage(): the adapter is built, and for the in-memory adapter loadFromFile()
\* has been started and not awaited
InitStore ==
    /\ backend \in {"memory", "kv"}
    /\ now = Start
    /\ documents = <<>>
    /\ pdfChunks = [p \in Pdfs |-> NoChunks]
    /\ file \in IF backend = "memory" THEN {NoFile, PriorFile} ELSE {NoFile}
    /\ loadPc = IF backend = "memory" THEN "reading" ELSE "done"
    /\ loadBuf = NoFile
    /\ kvDoc = [id \in Ids |-> NullDoc]
    /\ kvPdf = [p \in Pdfs |-> NoChunks]
    /\ kvIndex = <<>>
    /\ kvExpire = <<>>
    /\ savePc = [t \in Tasks |-> "idle"]
    /\ saveArg = [t \in Tasks |-> NullDoc]
    /\ saveData = [t \in Tasks |-> NoFile]

\* fetchPdf has not been called
NullReturn == [buffer |-> FALSE, content |-> "none", hops |-> 0]
BufferOf(content, hops) == [buffer |-> TRUE, content |-> content, hops |-> hops]

IdleFetch ==
    [pc |-> "idle", eksportId |-> NoId, timer |-> "unset", deadline |-> NoDate,
     returned |-> FALSE, ret |-> NullReturn]

IdleTwin == [name |-> "none", mem |-> <<>>, kv |-> <<>>]

\* getRelevantPdfChunks is not running
IdleRel ==
    [pc |-> "idle", eksportIds |-> <<>>, i |-> 0, query |-> <<>>, relevantChunks |-> <<>>,
     returned |-> FALSE, result |-> <<>>]

\* the digest route: an empty cache and no request in flight
NoResponse == [status |-> 0, xCache |-> "none", date |-> NoDate, items |-> <<>>]
IdleDigest ==
    [cache |-> <<>>, pc |-> "idle", forceRefresh |-> FALSE, cacheKey |-> NoDate,
     documents |-> <<>>, response |-> NoResponse]

InitClient ==
    /\ op = "idle" /\ ret = IdleRet
    /\ rel = IdleRel /\ digest = IdleDigest /\ chunker = <<>> /\ twin = IdleTwin
    /\ cycle = "none"
    /\ pdfFetch = IdleFetch

InitPoll ==
    /\ phase = "idle"
    /\ listing = <<>>
    /\ storedDocsMap = [id \in Ids |-> NullDoc]
    /\ toFetch = <<>>
    /\ detail = [id \in Ids |-> "none"]

NullBuffer == [pdf |-> "", rev |-> 0]
NoLocals == [pdfBuffer |-> NullBuffer, chunks |-> <<>>]
NoReturn == [at |-> "none", chunks |-> <<>>]

InitPdf ==
    /\ pdfPc = [c \in Callers |-> "idle"]
    /\ pdfArg = [c \in Callers |-> "p"]
    /\ pdfBuf = [c \in Callers |-> NoLocals]
    /\ pdfRet = [c \in Callers |-> NoReturn]

Init == InitStore /\ InitClient /\ InitPoll /\ InitPdf

(***************************************************************************)
(* The event loop: after an awaited call settles, the awaiting code runs   *)
(* before any other callback                                               *)
(***************************************************************************)
Runnable == op # "saved"

(***************************************************************************)
(* InMemoryStorage.loadFromFile                                            *)
(***************************************************************************)
\* fs.readFile + JSON.parse; a missing file throws and is swallowed
LoadRead ==
    /\ Runnable
    /\ loadPc = "reading"
    /\ IF file.exists
       THEN loadPc' = "assign" /\ loadBuf' = file
       ELSE loadPc' = "done" /\ loadBuf' = loadBuf
    /\ UNCHANGED <<backend, now, documents, pdfChunks, file, kvDoc, kvPdf, kvIndex, kvExpire,
                   saveVars, clientVars, pollVars, pdfVars>>

\* this.documents = new Map(data.documents), this.pdfChunks = new Map(data.pdfChunks)
LoadAssign ==
    /\ Runnable
    /\ loadPc = "assign"
    /\ documents' = loadBuf.documents
    /\ pdfChunks' = loadBuf.pdfChunks
    /\ loadPc' = "done"
    /\ loadBuf' = NoFile
    /\ UNCHANGED <<backend, now, file, kvDoc, kvPdf, kvIndex, kvExpire,
                   saveVars, clientVars, pollVars, pdfVars>>

(***************************************************************************)
(* saveDocument, one awaited step at a time                                *)
(***************************************************************************)
\* the entries persistToFile() puts in data, as JSON.stringify will write them
SnapshotJson ==
    [exists |-> TRUE,
     documents |-> [i \in 1..Len(documents) |->
                      [key |-> documents[i].key, value |-> JsonRoundTrip(documents[i].value)]],
     pdfChunks |-> pdfChunks]

\* InMemoryStorage.saveDocument up to its await: this.documents.set(doc.sakId, doc)
MemSet(docs, doc) == MapSet(docs, doc.sakId, doc)

\* VercelKVStorage.saveDocument: kv.set(docKey, doc)
KvSetDoc(store, doc) == [store EXCEPT ![doc.sakId] = JsonRoundTrip(doc)]

\* VercelKVStorage.saveDocument: kv.sadd(dateIndexKey(doc.date.split('T')[0]), doc.sakId)
KvSaddDoc(index, doc) ==
    LET d == Day(doc.date)
    IN [k \in DOMAIN index \cup {d} |->
          IF k = d THEN Smembers(d) \cup {doc.sakId} ELSE index[k]]

\* fetchAndChunkPdf returns: at names the return statement taken
PdfReturn(c, at, chunks) ==
    /\ pdfPc' = [pdfPc EXCEPT ![c] = "idle"]
    /\ pdfRet' = [pdfRet EXCEPT ![c] = [at |-> at, chunks |-> chunks]]
    /\ pdfBuf' = [pdfBuf EXCEPT ![c] = NoLocals]
    /\ pdfArg' = pdfArg

\* what the completion of task t's save does to the code awaiting it
SaveSettled(t) ==
    /\ op' = IF t = "client" THEN "saved" ELSE op
    /\ ret' = IF t = "client"
              THEN [IdleRet EXCEPT !.name = "saveDocument", !.id = saveArg[t].sakId,
                                   !.doc = saveArg[t]]
              ELSE ret
    /\ UNCHANGED appVars
    /\ IF t \in Ids /\ \A u \in Ids \ {t} : savePc[u] = "idle"
       THEN /\ phase' = "idle"
            /\ listing' = <<>>
            /\ storedDocsMap' = [id \in Ids |-> NullDoc]
            /\ toFetch' = <<>>
            /\ detail' = [id \in Ids |-> "none"]
       ELSE UNCHANGED pollVars
    /\ IF t \in Callers
       THEN PdfReturn(t, "chunks", pdfBuf[t].chunks)
       ELSE UNCHANGED pdfVars

\* persistToFile(): data = {documents: Array.from(...), ...}
MemCapture(t) ==
    /\ Runnable
    /\ savePc[t] = "capture"
    /\ saveData' = [saveData EXCEPT ![t] = SnapshotJson]
    /\ savePc' = [savePc EXCEPT ![t] = "write"]
    /\ UNCHANGED <<backend, now, storeVars, saveArg, clientVars, pollVars, pdfVars>>

\* persistToFile(): fs.writeFile; a failure is swallowed
MemWrite(t) ==
    /\ Runnable
    /\ savePc[t] = "write"
    /\ \E ok \in BOOLEAN : file' = IF ok THEN saveData[t] ELSE file
    /\ savePc' = [savePc EXCEPT ![t] = "idle"]
    /\ saveData' = [saveData EXCEPT ![t] = NoFile]
    /\ saveArg' = [saveArg EXCEPT ![t] = NullDoc]
    /\ SaveSettled(t)
    /\ UNCHANGED <<backend, now, documents, pdfChunks, loadPc, loadBuf,
                   kvDoc, kvPdf, kvIndex, kvExpire>>

KvSet(t) ==
    /\ Runnable
    /\ savePc[t] = "set"
    /\ kvDoc' = KvSetDoc(kvDoc, saveArg[t])
    /\ savePc' = [savePc EXCEPT ![t] = "sadd"]
    /\ UNCHANGED <<backend, now, documents, pdfChunks, file, loadPc, loadBuf, kvPdf, kvIndex,
                   kvExpire, saveArg, saveData, clientVars, pollVars, pdfVars>>

KvSadd(t) ==
    /\ Runnable
    /\ savePc[t] = "sadd"
    /\ kvIndex' = KvSaddDoc(kvIndex, saveArg[t])
    /\ kvExpire' = LET d == Day(saveArg[t].date)
                   IN IF KvExpired(d) \/ d \notin DOMAIN kvExpire
                      THEN [k \in DOMAIN kvExpire \cup {d} |-> IF k = d THEN NoTTL ELSE kvExpire[k]]
                      ELSE kvExpire
    /\ savePc' = [savePc EXCEPT ![t] = "expire"]
    /\ UNCHANGED <<backend, now, documents, pdfChunks, file, loadPc, loadBuf, kvDoc, kvPdf,
                   saveArg, saveData, clientVars, pollVars, pdfVars>>

\* kv.expire(dateIndexKey, 30 * 24 * 60 * 60)
KvExpire(t) ==
    /\ Runnable
    /\ savePc[t] = "expire"
    /\ kvExpire' = LET d == Day(saveArg[t].date)
                   IN IF d \in DOMAIN kvIndex /\ ~KvExpired(d)
                      THEN [kvExpire EXCEPT ![d] = now + ExpireTicks]
                      ELSE kvExpire
    /\ savePc' = [savePc EXCEPT ![t] = "idle"]
    /\ saveArg' = [saveArg EXCEPT ![t] = NullDoc]
    /\ SaveSettled(t)
    /\ UNCHANGED <<backend, now, documents, pdfChunks, file, loadPc, loadBuf, kvDoc, kvPdf,
                   kvIndex, saveData>>

(***************************************************************************)
(* The clock; an expired date-index set is gone from the KV store          *)
(***************************************************************************)
Advance(d) ==
    /\ now' = now + d
    /\ LET live == {k \in DOMAIN kvIndex :
                       k \notin DOMAIN kvExpire \/ kvExpire[k] = NoTTL \/ kvExpire[k] > now + d}
       IN /\ kvIndex' = [k \in live |-> kvIndex[k]]
          /\ kvExpire' = [k \in live |-> kvExpire[k]]
    /\ UNCHANGED <<backend, documents, pdfChunks, file, loadPc, loadBuf, kvDoc, kvPdf,
                   saveVars, clientVars, pollVars, pdfVars>>

\* the process is left alone for the retention time of the date index
Sleep == Runnable /\ now < Start + ExpireTicks /\ Advance(ExpireTicks)

(***************************************************************************)
(* A client of the storage API that awaits each call (the test-storage     *)
(* route): saveDocument, getDocument, getDocumentsByDateRange              *)
(***************************************************************************)
StoreDates == {Start - 1, Start, Start + 1}
StoreDocs ==
    {MkDoc("a", Start - 1, Start - 1, "detail"), MkDoc("a", Start, Start, Undefined),
     MkDoc("a", Start + 1, Start + 1, Undefined), MkDoc("b", Start, Start, Undefined),
     MkDoc("b", Start + 1, Start + 1, "detail"), MkDoc(NoId, Start, Start, Undefined)}

\* storage.saveDocument(doc), up to its first await
ClientSave(doc) ==
    /\ op \in {"idle", "saved"}
    /\ IF ~Truthy(Get(doc, "sakId"))
       THEN /\ op' = "saved"
            /\ ret' = [IdleRet EXCEPT !.name = "saveDocument", !.doc = doc]
            /\ UNCHANGED <<documents, kvDoc, saveVars>>
       ELSE /\ op' = "saving"
            /\ ret' = ret
            /\ saveArg' = [saveArg EXCEPT !["client"] = doc]
            /\ saveData' = saveData
            /\ IF backend = "memory"
               THEN /\ documents' = MemSet(documents, doc)
                    /\ savePc' = [savePc EXCEPT !["client"] = "capture"]
                    /\ kvDoc' = kvDoc
               ELSE /\ savePc' = [savePc EXCEPT !["client"] = "set"]
                    /\ UNCHANGED <<documents, kvDoc>>
    /\ UNCHANGED <<backend, now, pdfChunks, file, loadPc, loadBuf, kvPdf, kvIndex, kvExpire,
                   appVars, pollVars, pdfVars>>

\* await storage.getDocument(sakId)
ClientGet(sakId) ==
    /\ op \in {"idle", "saved"}
    /\ op' = "idle"
    /\ ret' = [IdleRet EXCEPT !.name = "getDocument", !.id = sakId, !.doc = GetDocument(sakId)]
    /\ UNCHANGED <<backend, now, storeVars, saveVars, appVars, pollVars, pdfVars>>

\* await storage.getDocumentsByDateRange(startDate, endDate)
ClientRange(startDate, endDate) ==
    /\ op \in {"idle", "saved"}
    /\ op' = "idle"
    /\ \E docs \in RangeResults(startDate, endDate) :
          ret' = [IdleRet EXCEPT !.name = "getDocumentsByDateRange", !.list = docs,
                                 !.s = startDate, !.e = endDate]
    /\ UNCHANGED <<backend, now, storeVars, saveVars, appVars, pollVars, pdfVars>>

\* the request handler ends after a save
ClientReturn ==
    /\ op = "saved"
    /\ op' = "idle"
    /\ UNCHANGED <<backend, now, storeVars, saveVars, ret, appVars, pollVars, pdfVars>>

NextStore ==
    \/ LoadRead
    \/ LoadAssign
    \/ MemCapture("client")
    \/ MemWrite("client")
    \/ KvSet("client")
    \/ KvSadd("client")
    \/ KvExpire("client")
    \/ Sleep
    \/ \E doc \in StoreDocs : ClientSave(doc)
    \/ \E sakId \in Ids : ClientGet(sakId)
    \/ \E s \in StoreDates, e \in StoreDates : ClientRange(s, e)
    \/ ClientReturn

SpecStore == Init /\ [][NextStore]_vars

(***************************************************************************)
(* fetchRecentDocuments: one poll at a time                                *)
(***************************************************************************)
\* a listed sak: its id and its sist_oppdatert_dato || respons_dato_tid (NoDate: neither)
Item(id, marker) == [id |-> id, marker |-> marker]

\* what the /saker listing can report for a sak: a marker in the 7-day window, one
\* before it, one ahead of the clock of the process, or none
MarkerChoices(id) ==
    IF id = "a" THEN {Start - 1, Start}
    ELSE {Start - WindowTicks - 1, Start + TicksPerDay, NoDate}

Listings ==
    {<<>>}
    \cup UNION {{<<Item(id, m)>> : m \in MarkerChoices(id)} : id \in Ids}
    \cup UNION {{<<Item(pair[1], mx), Item(pair[2], my)>> :
                       mx \in MarkerChoices(pair[1]), my \in MarkerChoices(pair[2])} :
                    pair \in {q \in Ids \X Ids : q[1] # q[2]}}

\* new Map(storedDocs.map(doc => [doc.sakId, doc])): the last entry of an id wins
RECURSIVE StoredDocsMapGet(_, _)
StoredDocsMapGet(storedDocs, id) ==
    IF storedDocs = <<>> THEN NullDoc
    ELSE IF storedDocs[Len(storedDocs)].sakId = id THEN storedDocs[Len(storedDocs)]
    ELSE StoredDocsMapGet(SubSeq(storedDocs, 1, Len(storedDocs) - 1), id)

StoredDocsMap(storedDocs) == [id \in Ids |-> StoredDocsMapGet(storedDocs, id)]

ItemCompare(a, b) == b.marker - a.marker

\* saker.filter(dateStr && !isNaN(docDate) && docDate >= weekAgo).sort(date descending)
FilteredSaker(saker, weekAgo) ==
    Sort(SelectSeq(saker, LAMBDA sak : TruthyDate(sak.marker) /\ sak.marker >= weekAgo),
         ItemCompare)

\* stored.lastUpdated || stored.date
StoredLastUpdated(stored) ==
    IF TruthyDate(Get(stored, "lastUpdated")) THEN stored.lastUpdated ELSE stored.date

\* the filter that keeps a sak when it is new or its marker differs from the stored one
NeedsFetch(stored, sak) ==
    \/ stored = NullDoc
    \/ StoredLastUpdated(stored) # sak.marker

SakerToFetch(filteredSaker, storedMap) ==
    SelectSeq(filteredSaker, LAMBDA sak : NeedsFetch(storedMap[sak.id], sak))

ItemIds(saker) == {saker[i].id : i \in DOMAIN saker}

DetailOutcomes == {"ok", "notOk", "throw"}

\* the StortingetDocument the poll builds for a sak once its detail request has settled:
\* the detail fields are filled only from an OK response
BuildDoc(sak, outcome) ==
    MkDoc(sak.id,
          IF TruthyDate(sak.marker) THEN sak.marker ELSE now,
          sak.marker,
          IF outcome = "ok" THEN "detail" ELSE Undefined)

\* Promise.all over the detail requests resolves when none is pending
AnySettled(det) == \E id \in Ids : det[id] \in DetailOutcomes
AllSettled(det) == \A id \in Ids : det[id] # "pending"

\* newDocuments.map(doc => storage.saveDocument(doc)): each Map.set runs before the
\* first await of its saveDocument call
MemSetAllReplacing(docs, newDocs) ==
    [i \in 1..Len(newDocs) |-> [key |-> newDocs[i].sakId, value |-> newDocs[i]]]
RECURSIVE MemSetAll(_, _)
MemSetAll(docs, newDocs) ==
    IF newDocs = <<>> THEN docs ELSE MemSetAll(MemSet(docs, Head(newDocs)), Tail(newDocs))

\* the listing request, the stored documents of the last 7 days, the change detection
\* and the detail requests it issues
PollBegin(saker) ==
    /\ Runnable
    /\ phase = "idle"
    /\ \E storedDocs \in RangeResults(now - WindowTicks, now) :
          LET storedMap == StoredDocsMap(storedDocs)
              fetch == SakerToFetch(FilteredSaker(saker, now - WindowTicks), storedMap)
          IN IF fetch = <<>>
             THEN UNCHANGED pollVars
             ELSE /\ phase' = "detail"
                  /\ listing' = saker
                  /\ storedDocsMap' = storedMap
                  /\ toFetch' = fetch
                  /\ detail' = [id \in Ids |-> IF id \in ItemIds(fetch) THEN "pending" ELSE "none"]

PollStart(saker) ==
    /\ PollBegin(saker)
    /\ UNCHANGED <<backend, now, storeVars, saveVars, clientVars, pdfVars>>

\* one detail request settles; when the last one has, the documents are built and
\* storage.saveDocument is called for each of them
DetailSettle(id, outcome) ==
    /\ Runnable
    /\ phase = "detail"
    /\ detail[id] = "pending"
    /\ LET det == [detail EXCEPT ![id] = outcome]
           newDocuments == [i \in 1..Len(toFetch) |-> BuildDoc(toFetch[i], det[toFetch[i].id])]
           DocOf(t) == CHOOSE doc \in SeqToSet(newDocuments) : doc.sakId = t
       IN /\ detail' = det
          /\ IF AllSettled(det)
             THEN /\ phase' = "save"
                  /\ saveArg' = [t \in Tasks |->
                                   IF t \in ItemIds(toFetch) THEN DocOf(t) ELSE saveArg[t]]
                  /\ savePc' = [t \in Tasks |->
                                  IF t \in ItemIds(toFetch)
                                  THEN IF backend = "memory" THEN "capture" ELSE "set"
                                  ELSE savePc[t]]
                  /\ documents' = IF backend = "memory"
                                  THEN MemSetAll(documents, newDocuments)
                                  ELSE documents
             ELSE UNCHANGED <<phase, saveArg, savePc, documents>>
    /\ UNCHANGED <<backend, now, pdfChunks, file, loadPc, loadBuf, kvDoc, kvPdf, kvIndex,
                   kvExpire, saveData, listing, storedDocsMap, toFetch, clientVars, pdfVars>>

Next ==
    \/ LoadRead
    \/ LoadAssign
    \/ \E t \in Ids : MemCapture(t)
    \/ \E t \in Ids : MemWrite(t)
    \/ \E t \in Ids : KvSet(t)
    \/ \E t \in Ids : KvSadd(t)
    \/ \E t \in Ids : KvExpire(t)
    \/ \E saker \in Listings : PollStart(saker)
    \/ \E id \in Ids, outcome \in DetailOutcomes : DetailSettle(id, outcome)

Spec == Init /\ [][Next]_vars

(***************************************************************************)
(* Strings are sequences of characters                                     *)
(***************************************************************************)
WhiteSpace == {" ", "\n"}
SentenceEnd == {".", "!", "?"}
ParagraphBreak == <<"\n", "\n">>
Space == <<" ">>

Rep(c, n) == [i \in 1..n |-> c]

\* String.prototype.trim
Trim(s) ==
    IF \A i \in DOMAIN s : s[i] \in WhiteSpace THEN <<>>
    ELSE LET first == CHOOSE i \in DOMAIN s :
                          s[i] \notin WhiteSpace /\ \A j \in 1..(i - 1) : s[j] \in WhiteSpace
             last == CHOOSE i \in DOMAIN s :
                          s[i] \notin WhiteSpace /\ \A j \in (i + 1)..Len(s) : s[j] \in WhiteSpace
         IN SubSeq(s, first, last)

\* String.prototype.slice(-n)
SliceLast(s, n) == IF Len(s) <= n THEN s ELSE SubSeq(s, Len(s) - n + 1, Len(s))

\* the last index of the run of white space that starts at i (i - 1 when there is none)
RunEnd(s, i) ==
    CHOOSE e \in (i - 1)..Len(s) :
        /\ e = Len(s) \/ s[e + 1] \notin WhiteSpace
        /\ \A k \in i..e : s[k] \in WhiteSpace

\* where /\n\s*\n/ matches when the match starts at i: the greedy \s* gives back
\* characters up to the last newline of the run
BreakEnd(s, i) ==
    LET e == RunEnd(s, i + 1)
    IN CHOOSE j \in (i + 1)..e : s[j] = "\n" /\ \A k \in (j + 1)..e : s[k] # "\n"

BreakAt(s, i) == s[i] = "\n" /\ \E j \in (i + 1)..RunEnd(s, i + 1) : s[j] = "\n"

\* text.split(/\n\s*\n/)
RECURSIVE SplitParagraphs(_)
SplitParagraphs(s) ==
    IF \A i \in DOMAIN s : ~BreakAt(s, i) THEN <<s>>
    ELSE LET i == CHOOSE k \in DOMAIN s : BreakAt(s, k) /\ \A m \in 1..(k - 1) : ~BreakAt(s, m)
         IN <<SubSeq(s, 1, i - 1)>> \o SplitParagraphs(SubSeq(s, BreakEnd(s, i) + 1, Len(s)))

GapAt(s, i) == i > 1 /\ s[i] \in WhiteSpace /\ s[i - 1] \in SentenceEnd

\* s.split(/(?<=[.!?])\s+/)
RECURSIVE SplitSentences(_)
SplitSentences(s) ==
    IF \A i \in DOMAIN s : ~GapAt(s, i) THEN <<s>>
    ELSE LET i == CHOOSE k \in DOMAIN s : GapAt(s, k) /\ \A m \in 1..(k - 1) : ~GapAt(s, m)
         IN <<SubSeq(s, 1, i - 1)>> \o SplitSentences(SubSeq(s, RunEnd(s, i) + 1, Len(s)))

\* Array.prototype.join
RECURSIVE Join(_, _)
Join(parts, sep) ==
    IF parts = <<>> THEN <<>>
    ELSE IF Len(parts) = 1 THEN parts[1]
    ELSE parts[1] \o sep \o Join(Tail(parts), sep)

(***************************************************************************)
(* chunkTextForRAG                                                         *)
(***************************************************************************)
MinChunkLength == 50

\* sentenceChunk.split(/(?<=[.!?])\s+/).slice(-2).join(' ')
LastSentences(sentenceChunk) ==
    LET parts == SplitSentences(sentenceChunk)
    IN Join(SubSeq(parts, IF Len(parts) > 2 THEN Len(parts) - 1 ELSE 1, Len(parts)), Space)

\* one turn of the loop over the sentences of an oversized currentChunk
AddSentence(st, sentence, chunkSize, overlap) ==
    IF Len(st.sentenceChunk) + Len(sentence) + 1 > chunkSize /\ Len(st.sentenceChunk) > 0
    THEN [chunks |-> Append(st.chunks, Trim(st.sentenceChunk)),
          sentenceChunk |-> IF overlap > 0
                            THEN LastSentences(st.sentenceChunk) \o Space \o sentence
                            ELSE sentence]
    ELSE [chunks |-> st.chunks,
          sentenceChunk |-> IF st.sentenceChunk # <<>>
                            THEN st.sentenceChunk \o Space \o sentence
                            ELSE sentence]

\* if (currentChunk.length > chunkSize * 1.5): re-split currentChunk by sentences
SplitBySentences(chunks, currentChunk, chunkSize, overlap) ==
    LET sentences == SplitSentences(currentChunk)
        st[n \in 0..Len(sentences)] ==
            IF n = 0 THEN [chunks |-> chunks, sentenceChunk |-> <<>>]
            ELSE AddSentence(st[n - 1], sentences[n], chunkSize, overlap)
    IN [chunks |-> st[Len(sentences)].chunks,
        currentChunk |-> st[Len(sentences)].sentenceChunk]

\* one turn of the loop over the paragraphs
AddParagraph(st, trimmedPara, chunkSize, overlap) ==
    LET closes == /\ Len(st.currentChunk) + Len(trimmedPara) + 1 > chunkSize
                  /\ Len(st.currentChunk) > 0
        chunks == IF closes THEN Append(st.chunks, Trim(st.currentChunk)) ELSE st.chunks
        currentChunk ==
            IF closes
            THEN IF overlap > 0 /\ Len(st.currentChunk) > overlap
                 THEN SliceLast(st.currentChunk, overlap) \o ParagraphBreak \o trimmedPara
                 ELSE trimmedPara
            ELSE IF st.currentChunk # <<>>
                 THEN st.currentChunk \o ParagraphBreak \o trimmedPara
                 ELSE trimmedPara
    IN IF 2 * Len(currentChunk) > 3 * chunkSize
       THEN SplitBySentences(chunks, currentChunk, chunkSize, overlap)
       ELSE [chunks |-> chunks, currentChunk |-> currentChunk]

\* const chunks = []; let currentChunk = '': locals, fresh in every call
ChunkLocalsKept ==
    [chunks |-> IF chunker = <<>> THEN <<>> ELSE chunker[Len(chunker)].result,
     currentChunk |-> <<>>]
ChunkLocals == [chunks |-> <<>>, currentChunk |-> <<>>]

chunkTextForRAG(text, chunkSize, overlap) ==
    IF Trim(text) = <<>> THEN <<>>
    ELSE LET paragraphs == SelectSeq(SplitParagraphs(text), LAMBDA para : Trim(para) # <<>>)
             st[n \in 0..Len(paragraphs)] ==
                 IF n = 0 THEN ChunkLocals
                 ELSE AddParagraph(st[n - 1], Trim(paragraphs[n]), chunkSize, overlap)
             rest == st[Len(paragraphs)].currentChunk
             chunks == IF Trim(rest) # <<>>
                       THEN Append(st[Len(paragraphs)].chunks, Trim(rest))
                       ELSE st[Len(paragraphs)].chunks
         IN IF Len(chunks) > 1
            THEN SelectSeq(chunks, LAMBDA chunk : Len(chunk) >= MinChunkLength)
            ELSE chunks

(***************************************************************************)
(* fetchAndChunkPdf, one awaited step at a time                            *)
(***************************************************************************)
PdfChunkSize == 1000
PdfOverlap == 200
ParaLen == 500

\* the export published under an eksportId is one document
PdfBuffersRevised(eksportId) == {[pdf |-> eksportId, rev |-> r] : r \in {1, 2}}
PdfBuffers(eksportId) == {[pdf |-> eksportId, rev |-> 1]}

\* fetchPdf: the document as a Buffer, or null (timeout, non-OK status, no PDF found)
FetchPdfResults(eksportId) == PdfBuffers(eksportId) \cup {NullBuffer}

\* the text pdf-parse extracts: "p" has two long paragraphs (a later revision has one
\* short sentence), "q" is a scan with no text layer
PdfText(pdfBuffer) ==
    IF pdfBuffer.pdf = "p"
    THEN IF pdfBuffer.rev = 1
         THEN Rep("x", ParaLen) \o ParagraphBreak \o Rep("y", ParaLen)
         ELSE <<"x", "y", ".">>
    ELSE <<" ", "\n">>

\* storage.getPdfChunks
GetPdfChunks(eksportId) ==
    IF backend = "memory" THEN pdfChunks[eksportId] ELSE kvPdf[eksportId]

CachedEmpty(chunks) == [present |-> TRUE, chunks |-> <<>>]
Cached(chunks) == [present |-> TRUE, chunks |-> chunks]

\* if (cachedChunks && cachedChunks.length > 0)
CacheHitNever(cachedChunks) == FALSE
CacheHit(cachedChunks) == cachedChunks.present /\ Len(cachedChunks.chunks) > 0

\* fetchAndChunkPdf(eksportId) is called; it awaits import('./storage')
PdfEnter(c, eksportId) ==
    /\ pdfPc' = [pdfPc EXCEPT ![c] = "check"]
    /\ pdfArg' = [pdfArg EXCEPT ![c] = eksportId]
    /\ UNCHANGED <<pdfBuf, pdfRet>>

PdfCall(c, eksportId) ==
    /\ Runnable
    /\ pdfPc[c] = "idle"
    /\ PdfEnter(c, eksportId)
    /\ UNCHANGED <<backend, now, storeVars, saveVars, clientVars, pollVars>>

\* the cache lookup: a hit returns the cached list, a miss goes on to fetchPdf
PdfCheck(c) ==
    /\ Runnable
    /\ pdfPc[c] = "check"
    /\ LET cachedChunks == GetPdfChunks(pdfArg[c])
       IN IF CacheHit(cachedChunks)
          THEN PdfReturn(c, "hit", cachedChunks.chunks)
          ELSE /\ pdfPc' = [pdfPc EXCEPT ![c] = "fetch"]
               /\ UNCHANGED <<pdfArg, pdfBuf, pdfRet>>
    /\ UNCHANGED <<backend, now, storeVars, saveVars, clientVars, pollVars>>

\* fetchPdf settles
PdfFetch(c, pdfBuffer) ==
    /\ Runnable
    /\ pdfPc[c] = "fetch"
    /\ IF pdfBuffer = NullBuffer
       THEN PdfReturn(c, "noPdf", <<>>)
       ELSE /\ pdfPc' = [pdfPc EXCEPT ![c] = "parse"]
            /\ pdfBuf' = [pdfBuf EXCEPT ![c].pdfBuffer = pdfBuffer]
            /\ UNCHANGED <<pdfArg, pdfRet>>
    /\ UNCHANGED <<backend, now, storeVars, saveVars, clientVars, pollVars>>

\* parsePdf settles: it throws, or the text is chunked and a non-empty chunk list is
\* handed to storage.savePdfChunks
PdfParse(c, parsed) ==
    /\ Runnable
    /\ pdfPc[c] = "parse"
    /\ IF ~parsed
       THEN PdfReturn(c, "error", <<>>) /\ UNCHANGED <<pdfChunks, saveVars>>
       ELSE IF Trim(PdfText(pdfBuf[c].pdfBuffer)) = <<>>
       THEN PdfReturn(c, "noText", <<>>) /\ UNCHANGED <<pdfChunks, saveVars>>
       ELSE \E chunks \in {chunkTextForRAG(PdfText(pdfBuf[c].pdfBuffer), PdfChunkSize, PdfOverlap)} :
          IF chunks = <<>>
          THEN PdfReturn(c, "chunks", chunks) /\ UNCHANGED <<pdfChunks, saveVars>>
          ELSE /\ pdfPc' = [pdfPc EXCEPT ![c] = "save"]
               /\ pdfBuf' = [pdfBuf EXCEPT ![c].chunks = chunks]
               /\ pdfChunks' = IF backend = "memory"
                               THEN [pdfChunks EXCEPT ![pdfArg[c]] = Cached(chunks)]
                               ELSE pdfChunks
               /\ savePc' = [savePc EXCEPT ![c] = IF backend = "memory" THEN "capture"
                                                  ELSE "pdfSet"]
               /\ UNCHANGED <<pdfArg, pdfRet, saveArg, saveData>>
    /\ UNCHANGED <<backend, now, documents, file, loadPc, loadBuf, kvDoc, kvPdf, kvIndex,
                   kvExpire, clientVars, pollVars>>

\* VercelKVStorage.savePdfChunks: kv.set(pdfChunksKey, chunks)
KvPdfSet(c) ==
    /\ Runnable
    /\ savePc[c] = "pdfSet"
    /\ kvPdf' = [kvPdf EXCEPT ![pdfArg[c]] = Cached(pdfBuf[c].chunks)]
    /\ savePc' = [savePc EXCEPT ![c] = "idle"]
    /\ SaveSettled(c)
    /\ UNCHANGED <<backend, now, documents, pdfChunks, file, loadPc, loadBuf, kvDoc, kvIndex,
                   kvExpire, saveArg, saveData>>

NextPdf ==
    \/ LoadRead
    \/ LoadAssign
    \/ \E c \in Callers, eksportId \in Pdfs : PdfCall(c, eksportId)
    \/ \E c \in Callers : PdfCheck(c)
    \/ \E c \in Callers : \E pdfBuffer \in FetchPdfResults(pdfArg[c]) : PdfFetch(c, pdfBuffer)
    \/ \E c \in Callers, parsed \in BOOLEAN : PdfParse(c, parsed)
    \/ \E c \in Callers : MemCapture(c)
    \/ \E c \in Callers : MemWrite(c)
    \/ \E c \in Callers : KvPdfSet(c)

SpecPdf == Init /\ [][NextPdf]_vars

(***************************************************************************)
(* getRelevantPdfChunks                                                    *)
(***************************************************************************)
MaxRelevant == 10
MinTermLength == 2

\* String.prototype.toLowerCase
LowerChar(ch) == IF ch = "X" THEN "x" ELSE IF ch = "Y" THEN "y" ELSE ch
ToLowerCase(s) == [i \in DOMAIN s |-> LowerChar(s[i])]

\* s.split(/\s+/)
RECURSIVE SplitWhiteSpace(_)
SplitWhiteSpace(s) ==
    IF \A i \in DOMAIN s : s[i] \notin WhiteSpace THEN <<s>>
    ELSE LET i == CHOOSE k \in DOMAIN s :
                      s[k] \in WhiteSpace /\ \A m \in 1..(k - 1) : s[m] \notin WhiteSpace
         IN <<SubSeq(s, 1, i - 1)>> \o SplitWhiteSpace(SubSeq(s, RunEnd(s, i) + 1, Len(s)))

\* queryLower.split(/\s+/).filter(t => t.length > 2)
QueryTerms(query) ==
    SelectSeq(SplitWhiteSpace(ToLowerCase(query)), LAMBDA t : Len(t) > MinTermLength)

\* String.prototype.includes
Includes(s, term) ==
    \E k \in 0..(Len(s) - Len(term)) : \A j \in 1..Len(term) : s[k + j] = term[j]

\* queryTerms.reduce((score, term) => score + (chunkLower.includes(term) ? 1 : 0), 0)
RECURSIVE Relevance(_, _)
Relevance(chunk, queryTerms) ==
    IF queryTerms = <<>> THEN 0
    ELSE (IF Includes(ToLowerCase(chunk), Head(queryTerms)) THEN 1 ELSE 0)
         + Relevance(chunk, Tail(queryTerms))

\* the chunks of one attachment that are pushed to relevantChunks
RelevantOf(chunks, queryTerms) ==
    SelectSeq(chunks, LAMBDA chunk : Relevance(chunk, queryTerms) > 0)

\* relevantChunks.slice(0, 10)
SliceFirstAll(s, n) == s
SliceFirst(s, n) == SubSeq(s, 1, IF Len(s) < n THEN Len(s) ELSE n)

\* getRelevantPdfChunks(eksportIds, query) up to its first await; with no id it returns
RelBegin(eksportIds, query) ==
    IF eksportIds = <<>>
    THEN [IdleRel EXCEPT !.query = query, !.returned = TRUE]
    ELSE [IdleRel EXCEPT !.pc = "loop", !.eksportIds = eksportIds, !.i = 1, !.query = query]

\* one turn of the loop once fetchAndChunkPdf has returned chunks; after the last id the
\* function returns
RelAfterKeepLast(r, chunks) ==
    LET relevantChunks == RelevantOf(chunks, QueryTerms(r.query))
    IN IF r.i < Len(r.eksportIds)
       THEN [r EXCEPT !.i = r.i + 1, !.relevantChunks = relevantChunks]
       ELSE [r EXCEPT !.pc = "idle", !.relevantChunks = relevantChunks, !.returned = TRUE,
                      !.result = SliceFirst(relevantChunks, MaxRelevant)]
RelAfter(r, chunks) ==
    LET relevantChunks == r.relevantChunks \o RelevantOf(chunks, QueryTerms(r.query))
    IN IF r.i < Len(r.eksportIds)
       THEN [r EXCEPT !.i = r.i + 1, !.relevantChunks = relevantChunks]
       ELSE [r EXCEPT !.pc = "idle", !.relevantChunks = relevantChunks, !.returned = TRUE,
                      !.result = SliceFirst(relevantChunks, MaxRelevant)]

\* getRelevantPdfChunks calls fetchAndChunkPdf as the caller RelCaller
RelCaller == "c1"
RelIdLists == {<<>>, <<"p">>, <<"p", "q">>, <<"q", "p">>, <<"p", "p">>}
RelQueries == {<<"x", "x", "x">>, <<"Y", "Y", "Y", " ", "x", "x">>}

RelCall(eksportIds, query) ==
    /\ Runnable
    /\ rel.pc = "idle"
    /\ pdfPc[RelCaller] = "idle"
    /\ rel' = RelBegin(eksportIds, query)
    /\ IF eksportIds = <<>>
       THEN UNCHANGED pdfVars
       ELSE PdfEnter(RelCaller, eksportIds[1])
    /\ UNCHANGED <<backend, now, storeVars, saveVars, op, ret, digest, chunker, twin, cycle,
                   pdfFetch, pollVars>>

\* await fetchAndChunkPdf(eksportId) has returned: its chunks are scored, and the loop
\* calls fetchAndChunkPdf for the next id or the function returns
RelCollect ==
    /\ Runnable
    /\ rel.pc = "loop"
    /\ pdfPc[RelCaller] = "idle"
    /\ rel' = RelAfter(rel, pdfRet[RelCaller].chunks)
    /\ IF rel.i < Len(rel.eksportIds)
       THEN PdfEnter(RelCaller, rel.eksportIds[rel.i + 1])
       ELSE UNCHANGED pdfVars
    /\ UNCHANGED <<backend, now, storeVars, saveVars, op, ret, digest, chunker, twin, cycle,
                   pdfFetch, pollVars>>

NextRel ==
    \/ LoadRead
    \/ LoadAssign
    \/ \E eksportIds \in RelIdLists, query \in RelQueries : RelCall(eksportIds, query)
    \/ RelCollect
    \/ PdfCheck(RelCaller)
    \/ \E pdfBuffer \in FetchPdfResults(pdfArg[RelCaller]) : PdfFetch(RelCaller, pdfBuffer)
    \/ \E parsed \in BOOLEAN : PdfParse(RelCaller, parsed)
    \/ MemCapture(RelCaller)
    \/ MemWrite(RelCaller)
    \/ KvPdfSet(RelCaller)

SpecRel == Init /\ [][NextRel]_vars

\* getRelevantPdfChunks over chunk lists of any content: the call of fetchAndChunkPdf is
\* taken as one step that returns some list of chunks, each longer than MinChunkLength
RankPad == Rep("w", MinChunkLength)
RankChunk(words) == RankPad \o Space \o words
RankChunkLists ==
    {<<>>,
     <<RankChunk(<<"x", "x", "x", " ", "z", "z">>), RankChunk(<<"Y", "Y", "Y">>),
       RankChunk(<<"z", "z", "z">>)>>,
     <<RankChunk(<<"y", "y", "y">>), RankChunk(<<"X", "x", "x", " ", "y", "y", "y">>),
       RankChunk(<<"x", "x", "x">>)>>,
     <<RankChunk(<<"z", "z", "z">>), RankChunk(<<"x", "x">>)>>,
     <<RankChunk(<<"x", "x", "x", "y", "y", "y">>), RankChunk(<<"y", "y", "y", "x">>),
       RankChunk(<<"x", "x", "x", "x">>)>>}
RankIdLists ==
    {<<>>, <<"p">>, <<"p", "q">>, <<"p", "q", "p">>, <<"p", "q", "p", "q">>}
RankQueries ==
    {<<"x", "x", "x", " ", "Y", "Y", "Y">>,
     <<"x", "x", " ", "y">>,
     <<" ", "y", "y", "y", "\n", " ">>,
     <<"x", "x", "x", " ", "X", "X", "X">>}

RankFetched(chunks) ==
    /\ Runnable
    /\ rel.pc = "loop"
    /\ pdfPc[RelCaller] = "check"
    /\ PdfReturn(RelCaller, "chunks", chunks)
    /\ UNCHANGED <<backend, now, storeVars, saveVars, clientVars, pollVars>>

NextRank ==
    \/ LoadRead
    \/ LoadAssign
    \/ \E eksportIds \in RankIdLists, query \in RankQueries : RelCall(eksportIds, query)
    \/ \E chunks \in RankChunkLists : RankFetched(chunks)
    \/ RelCollect

SpecRank == Init /\ [][NextRank]_vars

\* chunkTextForRAG called directly: the calls made so far, with what each returned
MaxCalls == 3
TestChunkSize == 20
TestOverlap == 5
Sentence(c, n) == Rep(c, n) \o <<".">>
ShortPara == Sentence("a", 6)
LongPara == Join(<<Sentence("b", 12), Sentence("c", 12), Sentence("d", 12)>>, Space)
ShortLongTexts ==
    {ShortPara \o ParagraphBreak \o LongPara,
     ShortPara \o ParagraphBreak \o Rep("b", 60),
     Rep("a", 12) \o ParagraphBreak \o Sentence("b", 30) \o Space \o Sentence("c", 8)}
ChunkTexts ==
    ShortLongTexts \cup {ShortPara, <<" ", "\n", " ">>, LongPara \o ParagraphBreak \o ShortPara}
WideChunkSize == 60
WideOverlap == 10
SentenceRun == Join(<<Sentence("b", 54), Sentence("c", 54), Sentence("d", 54)>>, Space)
WideTexts == {SentenceRun, Sentence("a", 54) \o ParagraphBreak \o Sentence("b", 54)}
ChunkArgs ==
    {[text |-> text, chunkSize |-> TestChunkSize, overlap |-> TestOverlap] : text \in ChunkTexts}
    \cup {[text |-> text, chunkSize |-> WideChunkSize, overlap |-> WideOverlap] : text \in WideTexts}
    \cup {[text |-> text, chunkSize |-> TestChunkSize, overlap |-> 0] : text \in ShortLongTexts}
    \cup {[text |-> ShortPara \o ParagraphBreak \o LongPara,
           chunkSize |-> PdfChunkSize, overlap |-> PdfOverlap]}

ChunkCall(args) ==
    /\ Runnable
    /\ Len(chunker) < MaxCalls
    /\ chunker' = Append(chunker,
                         [args |-> args,
                          result |-> chunkTextForRAG(args.text, args.chunkSize, args.overlap)])
    /\ UNCHANGED <<backend, now, storeVars, saveVars, op, ret, rel, digest, twin, cycle, pdfFetch,
                   pollVars, pdfVars>>

NextChunk ==
    \/ LoadRead
    \/ LoadAssign
    \/ \E args \in ChunkArgs : ChunkCall(args)

SpecChunk == Init /\ [][NextChunk]_vars

\* Two processes, one on each backend, are given the same awaited calls: documents and
\* file are the in-memory process's state, kvDoc, kvIndex and kvExpire the KV store's.
\* twin holds what the last call returned in each process.
\* await storage.saveDocument(doc) in both processes
TwinSave(doc) ==
    /\ loadPc = "done"
    /\ pdfChunks' = pdfChunks
    /\ IF ~Truthy(Get(doc, "sakId"))
       THEN UNCHANGED <<documents, file, kvDoc, kvIndex, kvExpire>>
       ELSE /\ documents' = MemSet(documents, doc)
            /\ \E ok \in BOOLEAN : file' = IF ok THEN SnapshotJson' ELSE file
            /\ kvDoc' = KvSetDoc(kvDoc, doc)
            /\ kvIndex' = KvSaddDoc(kvIndex, doc)
            /\ kvExpire' = [k \in DOMAIN kvExpire \cup {Day(doc.date)} |->
                              IF k = Day(doc.date) THEN now + ExpireTicks ELSE kvExpire[k]]
    /\ twin' = [name |-> "saveDocument", mem |-> <<>>, kv |-> <<>>]
    /\ UNCHANGED <<backend, now, loadPc, loadBuf, kvPdf, saveVars, op, ret, rel,
                   digest, chunker, cycle, pdfFetch, pollVars, pdfVars>>

\* await storage.getDocument(sakId) in both processes
TwinGet(sakId) ==
    /\ loadPc = "done"
    /\ twin' = [name |-> "getDocument", mem |-> <<MemGetDocument(sakId)>>,
                kv |-> <<KvGetDocument(sakId)>>]
    /\ UNCHANGED <<backend, now, storeVars, saveVars, op, ret, rel, digest, chunker,
                   cycle, pdfFetch, pollVars, pdfVars>>

\* await storage.getDocumentsByDateRange(startDate, endDate) in both processes
TwinRange(startDate, endDate) ==
    /\ loadPc = "done"
    /\ \E order \in KvOrders(startDate, endDate) :
          twin' = [name |-> "getDocumentsByDateRange",
                   mem |-> MemGetDocumentsByDateRange(startDate, endDate),
                   kv |-> KvGetDocumentsByDateRange(startDate, endDate, order)]
    /\ UNCHANGED <<backend, now, storeVars, saveVars, op, ret, rel, digest, chunker,
                   cycle, pdfFetch, pollVars, pdfVars>>

\* both processes start with nothing stored: no snapshot on disk, an empty KV store
InitTwin == Init /\ backend = "memory" /\ file = NoFile

NextTwin ==
    \/ LoadRead
    \/ \E doc \in StoreDocs : TwinSave(doc)
    \/ \E sakId \in Ids : TwinGet(sakId)
    \/ \E s \in StoreDates, e \in StoreDates : TwinRange(s, e)

SpecTwin == InitTwin /\ [][NextTwin]_vars

(***************************************************************************)
(* GET /api/digest                                                         *)
(***************************************************************************)
\* CACHE_TTL, in ticks: shorter than a day
CACHE_TTL == 1
MaxDigestTicks == 4
DigestDocLists == {<<>>, <<"a">>, <<"a", "b">>}

CacheHas(cache, key) == key \in DOMAIN cache
CacheSet(cache, key, entry) ==
    [k \in DOMAIN cache \cup {key} |-> IF k = key THEN entry ELSE cache[k]]

\* Date.now() - cached.timestamp < CACHE_TTL
FreshInclusive(cached) == now - cached.timestamp <= CACHE_TTL
Fresh(cached) == now - cached.timestamp < CACHE_TTL

\* the request up to its first await: the cache lookup
DigestGet(forceRefresh) ==
    /\ Runnable
    /\ digest.pc = "idle"
    /\ LET cacheKey == Day(now)
       IN IF ~forceRefresh /\ CacheHas(digest.cache, cacheKey) /\ Fresh(digest.cache[cacheKey])
          THEN digest' = [digest EXCEPT
                   !.forceRefresh = forceRefresh, !.cacheKey = cacheKey, !.documents = <<>>,
                   !.response = [status |-> 200, xCache |-> "HIT",
                                 date |-> digest.cache[cacheKey].data.date,
                                 items |-> digest.cache[cacheKey].data.items]]
          ELSE digest' = [digest EXCEPT
                   !.pc = "fetch", !.forceRefresh = forceRefresh, !.cacheKey = cacheKey,
                   !.documents = <<>>, !.response = NoResponse]
    /\ UNCHANGED <<backend, now, storeVars, saveVars, op, ret, rel, chunker, twin, cycle, pdfFetch,
                   pollVars, pdfVars>>

\* await fetchRecentDocuments() has returned documents (it returns [] on any failure)
DigestFetched(docs) ==
    /\ Runnable
    /\ digest.pc = "fetch"
    /\ IF Len(docs) = 0
       THEN digest' = [digest EXCEPT
                !.pc = "idle",
                !.response = [status |-> 200, xCache |-> "none", date |-> Day(now),
                              items |-> <<>>]]
       ELSE digest' = [digest EXCEPT !.pc = "summarize", !.documents = docs]
    /\ UNCHANGED <<backend, now, storeVars, saveVars, op, ret, rel, chunker, twin, cycle, pdfFetch,
                   pollVars, pdfVars>>

\* await summarizeDocuments(documents) has settled; ok = FALSE: it threw, the catch
\* block answers 500
DigestSummarized(ok) ==
    /\ Runnable
    /\ digest.pc = "summarize"
    /\ IF ok
       THEN LET data == [date |-> Day(now), items |-> digest.documents]
                set == CacheSet(digest.cache, digest.cacheKey,
                                [data |-> data, timestamp |-> now])
                keep == {digest.cacheKey, Day(now) - 1}
            IN digest' = [digest EXCEPT
                   !.pc = "idle", !.documents = <<>>,
                   !.cache = [k \in DOMAIN set \cap keep |-> set[k]],
                   !.response = [status |-> 200, xCache |-> "MISS", date |-> data.date,
                                 items |-> data.items]]
       ELSE digest' = [digest EXCEPT
                !.pc = "idle", !.documents = <<>>,
                !.response = [status |-> 500, xCache |-> "none", date |-> NoDate,
                              items |-> <<>>]]
    /\ UNCHANGED <<backend, now, storeVars, saveVars, op, ret, rel, chunker, twin, cycle, pdfFetch,
                   pollVars, pdfVars>>

\* time passes, between requests or while a request awaits
DigestTick == Runnable /\ now < Start + MaxDigestTicks /\ Advance(1)

NextDigest ==
    \/ LoadRead
    \/ LoadAssign
    \/ \E forceRefresh \in BOOLEAN : DigestGet(forceRefresh)
    \/ \E docs \in DigestDocLists : DigestFetched(docs)
    \/ \E ok \in BOOLEAN : DigestSummarized(ok)
    \/ DigestTick

SpecDigest == Init /\ [][NextDigest]_vars

\* fetchRecentDocuments from its start: the listing request settles with a response, OK
\* or not, or rejects (network error, abort after 30 s); a failure is thrown to the
\* outer catch, which returns []
ListingOutcomes == {"ok", "notOk", "network", "timeout"}
ListingThrowsOnReject(outcome) == outcome \in {"network", "timeout"}
ListingThrows(outcome) == outcome \in {"notOk", "network", "timeout"}

ShortListings == {saker \in Listings : Len(saker) <= 1}

ListingSettle(outcome, saker) ==
    /\ cycle' = outcome
    /\ IF ListingThrows(outcome)
       THEN Runnable /\ phase = "idle" /\ UNCHANGED pollVars
       ELSE PollBegin(saker)
    /\ UNCHANGED <<backend, now, storeVars, saveVars, op, ret, rel, digest, chunker, twin,
                   pdfFetch, pdfVars>>

NextListing ==
    \/ LoadRead
    \/ LoadAssign
    \/ \E t \in Ids : MemCapture(t)
    \/ \E t \in Ids : MemWrite(t)
    \/ \E t \in Ids : KvSet(t)
    \/ \E t \in Ids : KvSadd(t)
    \/ \E t \in Ids : KvExpire(t)
    \/ \E outcome \in ListingOutcomes, saker \in ShortListings : ListingSettle(outcome, saker)
    \/ \E id \in Ids, outcome \in DetailOutcomes : DetailSettle(id, outcome)

SpecListing == Init /\ [][NextListing]_vars

(***************************************************************************)
(* Concurrent saves on the in-memory adapter: a request that saves a       *)
(* document while other requests run fetchAndChunkPdf                      *)
(***************************************************************************)
\* the in-memory adapter once loadFromFile() has settled, before the first request
InitLoaded ==
    /\ backend = "memory"
    /\ now = Start
    /\ file \in {NoFile, PriorFile}
    /\ documents = file.documents
    /\ pdfChunks = file.pdfChunks
    /\ loadPc = "done"
    /\ loadBuf = NoFile
    /\ kvDoc = [id \in Ids |-> NullDoc]
    /\ kvPdf = [p \in Pdfs |-> NoChunks]
    /\ kvIndex = <<>>
    /\ kvExpire = <<>>
    /\ savePc = [t \in Tasks |-> "idle"]
    /\ saveArg = [t \in Tasks |-> NullDoc]
    /\ saveData = [t \in Tasks |-> NoFile]
    /\ InitClient /\ InitPoll /\ InitPdf

\* the documents the saving request writes, and the request that runs fetchAndChunkPdf
PersistDocs == {MkDoc("a", Start, Start, Undefined), MkDoc("b", Start + 1, Start + 1, "detail")}
PdfRequest == "c1"
Persisters == {"client", PdfRequest}

NextPersist ==
    \/ \E doc \in PersistDocs : ClientSave(doc)
    \/ ClientReturn
    \/ \E t \in Persisters : MemCapture(t)
    \/ \E t \in Persisters : MemWrite(t)
    \/ \E eksportId \in Pdfs : PdfCall(PdfRequest, eksportId)
    \/ PdfCheck(PdfRequest)
    \/ \E pdfBuffer \in FetchPdfResults(pdfArg[PdfRequest]) : PdfFetch(PdfRequest, pdfBuffer)
    \/ \E parsed \in BOOLEAN : PdfParse(PdfRequest, parsed)

SpecPersist == InitLoaded /\ [][NextPersist]_vars

(***************************************************************************)
(* fetchPdf                                                                *)
(***************************************************************************)
\* the 30 s of setTimeout(() => controller.abort(), 30000), in ticks
FetchTimeoutTicks == 2
MaxFetchTicks == 3

\* how the first request settles: it rejects (network error), or a response arrives
\* that is not OK, a PDF, an XML envelope with or without a pdf_url/fil_url, or else
FirstResponses == {"reject", "notOk", "pdf", "xmlUrl", "xmlNoUrl", "other"}
\* how the request for the URL found in the envelope settles
SecondResponses == {"reject", "notOk", "pdf", "xml", "other"}

FetchReturn(f, value) == [f EXCEPT !.pc = "idle", !.returned = TRUE, !.ret = value]

\* const timeoutId = setTimeout(...); await fetch(.../publikasjon/<eksportId>, {signal})
FetchPdfStart(eksportId) ==
    /\ Runnable
    /\ pdfFetch.pc = "idle"
    /\ pdfFetch' = [IdleFetch EXCEPT !.pc = "first", !.eksportId = eksportId,
                                     !.timer = "armed", !.deadline = now + FetchTimeoutTicks]
    /\ UNCHANGED <<backend, now, storeVars, saveVars, op, ret, rel, digest, chunker, twin,
                   cycle, pollVars, pdfVars>>

\* the first request settles: a rejection goes to the catch block; after a response
\* clearTimeout(timeoutId) runs, then the status and the content type decide
FetchPdfFirst(response) ==
    /\ Runnable
    /\ pdfFetch.pc = "first"
    /\ pdfFetch' =
          IF response = "reject" THEN FetchReturn(pdfFetch, NullReturn)
          ELSE LET f == [pdfFetch EXCEPT !.timer = "cleared"]
               IN CASE response = "notOk" -> FetchReturn(f, NullReturn)
                    [] response = "xmlUrl" -> [f EXCEPT !.pc = "second"]
                    [] response = "xmlNoUrl" -> FetchReturn(f, NullReturn)
                    [] response = "pdf" -> FetchReturn(f, BufferOf("pdf", 0))
                    [] OTHER -> FetchReturn(f, NullReturn)
    /\ UNCHANGED <<backend, now, storeVars, saveVars, op, ret, rel, digest, chunker, twin,
                   cycle, pollVars, pdfVars>>

\* the request for pdfUrl settles: if (pdfResponse.ok) return Buffer.from(...)
FetchPdfSecond(response) ==
    /\ Runnable
    /\ pdfFetch.pc = "second"
    /\ pdfFetch' =
          IF response \in {"reject", "notOk"} THEN FetchReturn(pdfFetch, NullReturn)
          ELSE FetchReturn(pdfFetch, BufferOf(response, 1))
    /\ UNCHANGED <<backend, now, storeVars, saveVars, op, ret, rel, digest, chunker, twin,
                   cycle, pollVars, pdfVars>>

\* the timer callback runs controller.abort(): a request in flight rejects with
\* AbortError and the catch block returns null
FetchPdfAbort ==
    /\ Runnable
    /\ pdfFetch.timer = "armed"
    /\ now >= pdfFetch.deadline
    /\ pdfFetch' =
          IF pdfFetch.pc = "idle" THEN [pdfFetch EXCEPT !.timer = "fired"]
          ELSE FetchReturn([pdfFetch EXCEPT !.timer = "fired"], NullReturn)
    /\ UNCHANGED <<backend, now, storeVars, saveVars, op, ret, rel, digest, chunker, twin,
                   cycle, pollVars, pdfVars>>

FetchTick == Runnable /\ now < Start + MaxFetchTicks /\ Advance(1)

NextFetch ==
    \/ LoadRead
    \/ LoadAssign
    \/ \E eksportId \in Pdfs : FetchPdfStart(eksportId)
    \/ \E response \in FirstResponses : FetchPdfFirst(response)
    \/ \E response \in SecondResponses : FetchPdfSecond(response)
    \/ FetchPdfAbort
    \/ FetchTick

SpecFetch == Init /\ [][NextFetch]_vars

(***************************************************************************)
(* Claims about the storage API                                            *)
(***************************************************************************)
StoredDocs == {GetDocument(id) : id \in Ids} \ {NullDoc}

\* C6: getDocument(r.sakId) issued right after saveDocument(r) has completed returns a
\* value equal to r, on both backends and whatever was stored under the id before.
C6_ReadAfterWrite ==
    [][(/\ op = "saved"
        /\ ret.name = "saveDocument"
        /\ Truthy(ret.id)
        /\ ret'.name = "getDocument"
        /\ ret'.id = ret.id)
       => DeepEqual(ret'.doc, ret.doc)]_vars

\* C7: for every range [s,e], getDocumentsByDateRange(s,e) returns exactly the stored
\* records whose date lies in [s,e]: none missing, none outside the range, none repeated.
C7_RangeExact ==
    (\A t \in Tasks : savePc[t] = "idle") =>
    \A s \in StoreDates, e \in StoreDates : \A docs \in RangeResults(s, e) :
        /\ SeqToSet(docs) = {d \in StoredDocs : d.date >= s /\ d.date <= e}
        /\ \A i, j \in DOMAIN docs : i # j => docs[i] # docs[j]

\* C8: the list getDocumentsByDateRange returned is ordered by date, newest first.
C8_SortedDesc ==
    ret.name = "getDocumentsByDateRange" =>
        \A i \in 1..(Len(ret.list) - 1) : ret.list[i].date >= ret.list[i + 1].date

C8_Witness ==
    /\ ret.name = "getDocumentsByDateRange"
    /\ Len(ret.list) >= 2
    /\ ret.list[1].date > ret.list[2].date

(***************************************************************************)
(* Claims about the poll                                                   *)
(***************************************************************************)
FailedOutcomes == {"notOk", "throw"}

\* the marker a caller of getDocument(id) reads from the stored record, NoDate when
\* there is no record
StoredMarker(id) ==
    IF GetDocument(id) = NullDoc THEN NoDate ELSE Get(GetDocument(id), "lastUpdated")

\* C1: a poll issues no detail request for a listed item whose id has a stored record
\* carrying the marker the listing reports.
C1_NoRefetchWhenUnchanged ==
    [][(phase = "idle" /\ phase' = "detail") =>
       \A i \in DOMAIN listing' :
           (/\ GetDocument(listing'[i].id) # NullDoc
            /\ StoredLastUpdated(GetDocument(listing'[i].id)) = listing'[i].marker)
           => detail'[listing'[i].id] # "pending"]_vars

\* C2: when a poll that detail-fetched an id because the listed marker r2 differs from
\* the marker r1 of the stored record completes, getDocument(id) returns a record that
\* carries r2.
C2_ChangedIsReplaced ==
    [][(phase = "save" /\ phase' = "idle") =>
       \A id \in Ids, r2 \in {toFetch[i].marker : i \in DOMAIN toFetch} :
           (/\ Item(id, r2) \in SeqToSet(toFetch)
            /\ storedDocsMap[id] # NullDoc
            /\ StoredLastUpdated(storedDocsMap[id]) # r2)
           => StoredMarker(id)' = r2]_vars

\* C3: an id whose detail request failed in a poll is skipped by that poll: no
\* saveDocument call is made for it, so its stored marker stays as it was.
C3_FailedIsSkipped ==
    \A id \in Ids : (phase = "save" /\ detail[id] \in FailedOutcomes) => savePc[id] = "idle"

\* C4: every record in the store was built from a successful detail fetch.
C4_OnlyDetailFetched ==
    \A id \in Ids : GetDocument(id) # NullDoc => Get(GetDocument(id), "fullText") = "detail"

C9_HitBypassesPipeline ==
    [][\A c \in Callers :
           (/\ pdfPc[c] = "check"
            /\ pdfPc'[c] # "check"
            /\ GetPdfChunks(pdfArg[c]).present)
           => /\ pdfPc'[c] = "idle"
              /\ pdfRet'[c] = [at |-> "hit", chunks |-> GetPdfChunks(pdfArg[c]).chunks]
              /\ savePc'[c] = "idle"
              /\ pdfChunks' = pdfChunks
              /\ kvPdf' = kvPdf]_vars

C9_Witness ==
    \E c \in Callers :
        /\ pdfPc[c] = "idle"
        /\ pdfRet[c].at = "hit"
        /\ pdfRet[c].chunks = GetPdfChunks(pdfArg[c]).chunks
        /\ Len(pdfRet[c].chunks) > 1

C11_FailedFetchIsSkipped ==
    [][/\ \A c \in Callers :
              (pdfPc[c] = "fetch" /\ pdfPc'[c] = "idle")
              => pdfRet'[c] = [at |-> "noPdf", chunks |-> <<>>]
       /\ (rel.pc = "loop" /\ rel' # rel /\ pdfRet[RelCaller].at = "noPdf")
          => /\ rel'.relevantChunks = rel.relevantChunks
             /\ IF rel.i < Len(rel.eksportIds)
                THEN /\ rel'.pc = "loop"
                     /\ pdfPc'[RelCaller] = "check"
                     /\ pdfArg'[RelCaller] = rel.eksportIds[rel.i + 1]
                ELSE /\ rel'.returned
                     /\ rel'.result = SliceFirst(rel.relevantChunks, MaxRelevant)]_vars

C11_Witness ==
    /\ rel.returned
    /\ rel.eksportIds = <<"p", "q">>
    /\ pdfArg[RelCaller] = "q"
    /\ pdfRet[RelCaller].at = "noPdf"
    /\ Len(rel.result) > 0

\* the words of a query: its maximal runs of characters that are not white space
Words(query) ==
    {SubSeq(query, i, j) : i \in DOMAIN query, j \in DOMAIN query} \cap
    {SubSeq(query, i, j) : <<i, j>> \in
        {ij \in (DOMAIN query) \X (DOMAIN query) :
            /\ ij[1] <= ij[2]
            /\ \A k \in ij[1]..ij[2] : query[k] \notin WhiteSpace
            /\ (ij[1] = 1 \/ query[ij[1] - 1] \in WhiteSpace)
            /\ (ij[2] = Len(query) \/ query[ij[2] + 1] \in WhiteSpace)}}
LongWords(query) == {w \in Words(query) : Len(w) >= 3}
SameLetter(c, d) == c = d \/ <<c, d>> \in {<<"x", "X">>, <<"X", "x">>, <<"y", "Y">>, <<"Y", "y">>}
ContainsIgnoreCase(chunk, w) ==
    \E k \in 0..(Len(chunk) - Len(w)) : \A j \in 1..Len(w) : SameLetter(chunk[k + j], w[j])

\* C12: a returned call of getRelevantPdfChunks has at most MaxRelevant (10) chunks, each
\* of them contains, ignoring case, a word of the query that is longer than 2
\* characters, and a query with no such word gives no chunk.
C12_AtMostTenAllMatching ==
    rel.returned =>
        /\ Len(rel.result) <= MaxRelevant
        /\ \A k \in DOMAIN rel.result :
               \E w \in LongWords(rel.query) : ContainsIgnoreCase(rel.result[k], w)
        /\ (LongWords(rel.query) = {} => rel.result = <<>>)

C12_Witness ==
    /\ rel.returned
    /\ Len(rel.relevantChunks) > MaxRelevant
    /\ Len(rel.result) = MaxRelevant
    /\ \E k \in DOMAIN rel.result : \E w \in LongWords(rel.query) :
           ContainsIgnoreCase(rel.result[k], w) /\ ~Includes(rel.result[k], w)

\* the number of distinct query terms a chunk contains
DistinctScore(chunk, query) ==
    Cardinality({w \in LongWords(query) : ContainsIgnoreCase(chunk, w)})
ScoreCompare(query, a, b) == DistinctScore(b, query) - DistinctScore(a, query)

\* C13: a returned call of getRelevantPdfChunks holds the MaxRelevant highest-scoring
\* matching chunks in descending order of score (the number of distinct query terms in
\* the chunk), chunks of equal score in (attachment, chunk) order.
C13_TopScoringFirst ==
    rel.returned =>
        rel.result =
            SliceFirst(Sort(rel.relevantChunks, LAMBDA a, b : ScoreCompare(rel.query, a, b)),
                       MaxRelevant)

(***************************************************************************)
(* Claims about chunkTextForRAG                                            *)
(***************************************************************************)
\* "about" 1.5 x targetSize: up to twice the target size is accepted
AboutLimit(chunkSize) == 2 * chunkSize

\* C14: chunkTextForRAG of a short first paragraph followed by a long second paragraph,
\* with targetSize 20 and overlap 5, returns at least two chunks, every chunk after the
\* first is at most about 1.5 x 20 characters long, and the second chunk begins with
\* the last 5 characters of the first.
C14_ShortThenLong ==
    \A k \in DOMAIN chunker :
        (/\ chunker[k].args.text \in ShortLongTexts
         /\ chunker[k].args.chunkSize = TestChunkSize
         /\ chunker[k].args.overlap = TestOverlap)
        => LET chunks == chunker[k].result
           IN /\ Len(chunks) >= 2
              /\ \A n \in 2..Len(chunks) : Len(chunks[n]) <= AboutLimit(TestChunkSize)
              /\ SubSeq(chunks[2], 1, TestOverlap) = SliceLast(chunks[1], TestOverlap)

RECURSIVE SentencesOf(_)
SentencesOf(paragraphs) ==
    IF paragraphs = <<>> THEN {}
    ELSE SeqToSet(SplitSentences(Trim(Head(paragraphs)))) \cup SentencesOf(Tail(paragraphs))

StartsWith(chunk, prefix) ==
    Len(chunk) >= Len(prefix) /\ SubSeq(chunk, 1, Len(prefix)) = prefix

\* C26: in what chunkTextForRAG returns for targetSize 60 and overlap 10, with every
\* chunk long enough to be kept, each chunk after the first begins with the last 10
\* characters of the chunk before it.
C26_NextBeginsWithOverlap ==
    \A k \in DOMAIN chunker :
        (chunker[k].args.text \in WideTexts /\ chunker[k].args.overlap = WideOverlap)
        => LET chunks == chunker[k].result
           IN \A n \in 2..Len(chunks) :
                  StartsWith(chunks[n], SliceLast(chunks[n - 1], WideOverlap))

\* C27: when no sentence of the text is longer than targetSize, every chunk that
\* chunkTextForRAG returns is at most 1.5 x targetSize characters long.
C27_ChunksWithinBound ==
    \A k \in DOMAIN chunker :
        LET args == chunker[k].args
        IN (\A sentence \in SentencesOf(SplitParagraphs(args.text)) :
                Len(sentence) <= args.chunkSize)
           => \A n \in DOMAIN chunker[k].result :
                  2 * Len(chunker[k].result[n]) <= 3 * args.chunkSize

\* C28: chunkTextForRAG of a text that is not blank returns at least one chunk.
C28_NonBlankGivesChunk ==
    \A k \in DOMAIN chunker :
        Trim(chunker[k].args.text) # <<>> => chunker[k].result # <<>>

(***************************************************************************)
(* Claims about the two backends                                           *)
(***************************************************************************)
\* C16: given the same sequence of saveDocument, getDocument and
\* getDocumentsByDateRange calls, the in-memory backend and the KV backend return the
\* same results: the same document or null, the same list of documents in the same order.
C16_BackendsAgree ==
    /\ Len(twin.mem) = Len(twin.kv)
    /\ \A i \in DOMAIN twin.mem \cap DOMAIN twin.kv : DeepEqual(twin.mem[i], twin.kv[i])

(***************************************************************************)
(* Claims about GET /api/digest                                            *)
(***************************************************************************)
\* a request starts in this step
DigestStarts == digest.pc = "idle" /\ digest' # digest
\* the request that starts finds an entry under today's key, younger than CACHE_TTL
DigestEntryFresh ==
    /\ Day(now) \in DOMAIN digest.cache
    /\ digest.cache[Day(now)].timestamp > now - CACHE_TTL
\* a request that called fetchRecentDocuments ends in this step
DigestEndsAfterFetch == digest.pc \in {"fetch", "summarize"} /\ digest'.pc = "idle"

\* a request is answered from the cache, without fetchRecentDocuments, exactly when
\* refresh=true was not asked and today's entry is younger than CACHE_TTL
DigestHitRule ==
    DigestStarts =>
        IF ~digest'.forceRefresh /\ DigestEntryFresh
        THEN /\ digest'.pc = "idle"
             /\ digest'.response.xCache = "HIT"
             /\ digest'.response.items = digest.cache[Day(now)].data.items
             /\ digest'.cache = digest.cache
        ELSE digest'.pc = "fetch"

\* C17 as stated: the cache answers only under DigestHitRule, and every request that
\* fetched the documents again ends with the entry under its key replaced.
C17_RefetchReplacesEntry ==
    [][/\ DigestHitRule
       /\ DigestEndsAfterFetch =>
              /\ digest.cacheKey \in DOMAIN digest'.cache
              /\ digest'.cache[digest.cacheKey].timestamp = now]_vars

\* C17: the cache answers only under DigestHitRule; a request that fetched the documents
\* again replaces the entry under its key when the fetch gave at least one document and
\* summarizeDocuments succeeded, and otherwise leaves the cache as it was, answering
\* with an empty digest or with status 500.
C17_RefetchReplacesOnSuccess ==
    [][/\ DigestHitRule
       /\ DigestEndsAfterFetch =>
              IF digest'.response.xCache = "MISS"
              THEN /\ digest.pc = "summarize" /\ digest.documents # <<>>
                   /\ digest.cacheKey \in DOMAIN digest'.cache
                   /\ digest'.cache[digest.cacheKey] =
                          [data |-> [date |-> Day(now), items |-> digest.documents],
                           timestamp |-> now]
              ELSE /\ digest'.cache = digest.cache
                   /\ \/ digest.pc = "fetch" /\ digest'.response.status = 200
                         /\ digest'.response.items = <<>>
                      \/ digest.pc = "summarize" /\ digest'.response.status = 500
       /\ digest'.cache # digest.cache => digest'.response.xCache = "MISS"]_vars

C17_Witness ==
    /\ digest.pc = "idle"
    /\ ~digest.forceRefresh
    /\ digest.response.xCache = "MISS"
    /\ Cardinality(DOMAIN digest.cache) = 2
    /\ digest.cacheKey \in DOMAIN digest.cache
    /\ digest.cache[digest.cacheKey].timestamp = now

(***************************************************************************)
(* Claims about the date index                                             *)
(***************************************************************************)
\* C18: when saveDocument(r) has completed on the KV backend, r's id is a member of the
\* day bucket of r's date and of no other day bucket.
C18_OneBucketPerId ==
    (backend = "kv" /\ op = "saved" /\ ret.name = "saveDocument" /\ Truthy(ret.id))
    => /\ ret.id \in Smembers(Day(ret.doc.date))
       /\ \A d \in DOMAIN kvIndex : ret.id \in Smembers(d) => d = Day(ret.doc.date)

(***************************************************************************)
(* Claims about the listing                                                *)
(***************************************************************************)
\* the listed sak has no usable revision marker, or the record stored for it has none
MarkerMissing(sak) ==
    \/ ~TruthyDate(sak.marker)
    \/ /\ storedDocsMap[sak.id] # NullDoc
       /\ ~TruthyDate(Get(storedDocsMap[sak.id], "lastUpdated"))

\* C19: in a poll that fetches details, every listed sak whose revision marker is missing
\* or unparseable, or whose stored record carries no marker, is among the saker that
\* are detail-fetched.
C19_MissingMarkerIsFetched ==
    phase = "detail" =>
        \A i \in DOMAIN listing :
            MarkerMissing(listing[i]) => listing[i].id \in ItemIds(toFetch)

\* C20: when the listing request fails (network error, timeout or a non-OK status), the
\* cycle ends there: no detail fetch is issued and no record, snapshot, date-index
\* bucket or expiry in the store is created or changed by the cycle.
C20_ListingFailureAborts ==
    [][(phase = "idle" /\ cycle' \in {"notOk", "network", "timeout"}
        /\ (cycle' # cycle \/ pollVars' # pollVars))
       => /\ phase' = "idle"
          /\ \A id \in Ids : detail'[id] = "none"
          /\ toFetch' = <<>>
          /\ UNCHANGED <<storeVars, saveVars>>]_vars

C20_Witness ==
    /\ cycle \in {"notOk", "network", "timeout"}
    /\ phase = "idle"
    /\ StoredDocs # {}
    /\ \A id \in Ids : detail[id] = "none"

(***************************************************************************)
(* Claims about what a poll cycle writes                                   *)
(***************************************************************************)
\* a step of the poll cycle or of one of its saves (not of loadFromFile, which
\* getStorage started)
PollStep == loadPc' = loadPc /\ loadBuf' = loadBuf

C22_WriteSurvivesLoad ==
    (/\ backend = "memory"
     /\ loadPc = "done"
     /\ op = "saved"
     /\ ret.name = "saveDocument"
     /\ Truthy(ret.id))
    => DeepEqual(MemGetDocument(ret.id), ret.doc)

(***************************************************************************)
(* Claims about fetchPdf                                                   *)
(***************************************************************************)
\* C23: fetchPdf follows at most one indirection and returns a buffer only when the
\* response it ends on is the binary itself: a second response that is again an
\* envelope, or that fails, gives null.
C23_OnlyBinaryReturned ==
    (pdfFetch.returned /\ pdfFetch.ret.buffer)
    => pdfFetch.ret.content = "pdf" /\ pdfFetch.ret.hops <= 1

\* C24: while a request of fetchPdf is in flight, its abort timer is armed.
C24_TimerArmedWhilePending ==
    pdfFetch.pc \in {"first", "second"} => pdfFetch.timer = "armed"

(***************************************************************************)
(* Claims about the outcomes of fetchAndChunkPdf                           *)
(***************************************************************************)
\* C25: what fetchAndChunkPdf returns when the text of a retrieved attachment cannot be
\* extracted differs from what it returns when the attachment cannot be fetched.
C25_ParseFailureDistinct ==
    \A c \in Callers, d \in Callers :
        (/\ pdfPc[c] = "idle" /\ pdfRet[c].at = "noPdf"
         /\ pdfPc[d] = "idle" /\ pdfRet[d].at \in {"error", "noText"})
        => pdfRet[c].chunks # pdfRet[d].chunks

\* a call of fetchAndChunkPdf returns no chunks in this step
ReturnsNoChunks(c) == pdfPc[c] # "idle" /\ pdfPc'[c] = "idle" /\ pdfRet'[c].chunks = <<>>

C30_SnapshotHoldsMemory ==
    [][\A t \in Persisters :
           (/\ savePc[t] = "write"
            /\ file' = saveData[t]
            /\ \A u \in Persisters : savePc'[u] = "idle")
           => file' = SnapshotJson']_vars

====
